---- MODULE Spec2Model ----
(***************************************************************************)
(* A model of the request pipeline of realm-web / realm-network-transport: *)
(*                                                                         *)
(*   - DefaultNetworkTransport (NetworkTransport.ts): fetchAndParse,       *)
(*     fetchWithCallbacks, the private fetch and createTimeoutSignal;      *)
(*   - Authenticator.authenticate (Authenticator.ts);                      *)
(*   - the query-string helpers (utils/string.ts).                         *)
(*                                                                         *)
(* JavaScript values are tagged records ([t |-> "string", s |-> ...]);     *)
(* strings whose content the code inspects or builds (content types,       *)
(* provider types, error messages) are sequences of tokens, so that        *)
(* startsWith and template strings are computed, not assumed.              *)
(***************************************************************************)
EXTENDS Integers, Sequences, FiniteSets, TLC

VARIABLES
    now,        \* the clock of the event loop, in milliseconds
    pc,         \* per call: "idle", "fetching", "reading" or "done"
    request,    \* per call: the request, the entry point used and the time
    timeout,    \* per call: the timer of createTimeoutSignal
    signal,     \* per call: "undefined", "clear" or "aborted"
    httpInit,   \* per call: what the HTTP capability was called with
    response,   \* per call: what the HTTP capability resolved with
    settled,    \* per call: how the promise (chain) of the call settled
    handler,    \* per call: how often onSuccess and onError were invoked,
                \* and how often onSuccess threw
    httpCalls,  \* per call: how often the HTTP capability was called
    bodyReads   \* per call: how often json() or text() was called

transportVars ==
    <<now, pc, request, timeout, signal, httpInit, response, settled,
      handler, httpCalls, bodyReads>>

VARIABLES
    apc,            \* authenticate: "idle", "oauth2", "appUrl", "login", "done"
    credentials,    \* authenticate: the credentials it was called with
    linkWithUser,   \* authenticate: the user to link with, or undefined
    appUrl,         \* authenticate: what getAppUrl resolved with
    loginRequest,   \* authenticate: the request given to fetcher.fetchJSON
    loginResponse,  \* authenticate: what fetcher.fetchJSON resolved with
    authResult,     \* authenticate: how its promise settled
    oauth2Calls,    \* this invocation: calls of oauth2.initiate
    appUrlCalls,    \* this invocation: calls of fetcher.getAppUrl
    posts,          \* this invocation: calls of fetcher.fetchJSON
    invocations     \* how often authenticate was called

authVars ==
    <<apc, credentials, linkWithUser, appUrl, loginRequest, loginResponse,
      authResult, oauth2Calls, appUrlCalls, posts, invocations>>

VARIABLES
    cpc,          \* the codec: "idle", "encoded" or "decoded"
    mapping,      \* the codec: the entries of the object that was encoded
    encoded,      \* the codec: what encodeQueryString returned
    decoded       \* the codec: what decodeQueryString returned or threw

codecVars == <<cpc, mapping, encoded, decoded>>

vars == <<transportVars, authVars, codecVars>>

----------------------------------------------------------------------------
(* Bounds of the model *)

\* the most entries an object given to encodeQueryString has
MaxEntries == 2

\* the largest timeoutMs a request is given
MaxTimeout == 1

\* the clock stops here
MaxTime == 2

\* how often authenticate is called, one call after the other
MaxInvocations == 2

----------------------------------------------------------------------------
(* JavaScript values *)

Undefined == [t |-> "undefined"]
JNull == [t |-> "null"]
JStr(s) == [t |-> "string", s |-> s]
JNum(n) == [t |-> "number", n |-> n]
JBool(b) == [t |-> "boolean", b |-> b]
JObj(f) == [t |-> "object", f |-> f]

\* the conversion of a value to a boolean by `?:`, `&&` and `if`
truthy(v) ==
    CASE v.t = "undefined" -> FALSE
      [] v.t = "null" -> FALSE
      [] v.t = "boolean" -> v.b
      [] v.t = "number" -> v.n # 0
      [] v.t = "string" -> Len(v.s) > 0
      [] OTHER -> TRUE

\* obj[key], for an object or a primitive that is neither null nor undefined
Get(obj, key) ==
    IF obj.t = "object" /\ key \in DOMAIN obj.f THEN obj.f[key] ELSE Undefined

\* typeof v
typeof(v) == IF v.t = "null" THEN "object" ELSE v.t

\* String.prototype.startsWith, on token sequences
startsWith(s, prefix) ==
    /\ Len(s) >= Len(prefix)
    /\ SubSeq(s, 1, Len(prefix)) = prefix

DigitChar(d) == <<"0", "1", "2", "3", "4", "5", "6", "7", "8", "9">>[d + 1]

\* the decimal form a template string gives a non-negative integer
RECURSIVE NumToStr(_)
NumToStr(n) ==
    IF n < 10 THEN <<DigitChar(n)>>
    ELSE NumToStr(n \div 10) \o <<DigitChar(n % 10)>>

\* an Error object: its class and its message
Err(class, message) == [class |-> class, message |-> message]

\* new MongoDBRealmError(method, url, statusCode, statusText, response)
MongoDBRealmError(method, url, status, statusText, payload) ==
    [class |-> "MongoDBRealmError", method |-> method, url |-> url,
     status |-> status, statusText |-> statusText, payload |-> payload]

\* a promise: pending, resolved with a value or rejected with an error
Pending == [kind |-> "pending"]
Resolved(v) == [kind |-> "resolved", value |-> v]
Rejected(e) == [kind |-> "rejected", error |-> e]

----------------------------------------------------------------------------
(* The HTTP capability (DefaultNetworkTransport.fetch, a Fetch) *)

\* what a body stream delivers: a text, or a failure of the stream
BrokenStream == "<<broken stream>>"
BodyTexts == {"{\"a\":1}", "{\"error\":\"invalid session\"}", "<html>"}
Bodies == BodyTexts \cup {BrokenStream}

\* JSON.parse
JSONParse(text) ==
    CASE text = "{\"a\":1}" -> Resolved(JObj([a |-> JNum(1)]))
      [] text = "{\"error\":\"invalid session\"}" ->
            Resolved(JObj([error |-> JStr(<<"invalid session">>)]))
      [] OTHER ->
            Rejected(Err("SyntaxError", <<"Unexpected token < in JSON at position 0">>))

StatusLines == {<<200, "OK">>, <<401, "Unauthorized">>, <<503, "">>}

\* the header maps of a response: no content-type, or one of these values
ContentTypes ==
    { <<"application/json">>, <<"application/json", "; charset=utf-8">>,
      <<"text/plain">>, <<>> }
HeaderMaps == {<<>>} \cup {[h \in {"content-type"} |-> ct] : ct \in ContentTypes}

\* Headers.get: null when the header is absent
HeadersGet(headers, name) ==
    IF name \in DOMAIN headers THEN JStr(headers[name]) ELSE JNull

Responses ==
    { [status |-> sl[1], statusText |-> sl[2], ok |-> sl[1] \in 200..299,
       headers |-> h, body |-> b] :
      sl \in StatusLines, h \in HeaderMaps, b \in Bodies }
NoResponse == [status |-> 0]

AbortError == Err("AbortError", <<"The user aborted a request.">>)
NetworkError == Err("TypeError", <<"Failed to fetch">>)

\* response.json(): rejects when the signal is aborted or the stream breaks,
\* and otherwise parses the text
json(resp, sig) ==
    IF sig = "aborted" THEN Rejected(AbortError)
    ELSE IF resp.body = BrokenStream THEN Rejected(NetworkError)
    ELSE JSONParse(resp.body)

\* response.text()
text(resp, sig) ==
    IF sig = "aborted" THEN Rejected(AbortError)
    ELSE IF resp.body = BrokenStream THEN Rejected(NetworkError)
    ELSE Resolved(resp.body)

----------------------------------------------------------------------------
(* Request descriptors *)

\* an object that refers to itself
Circular == [t |-> "object", f |-> <<>>, circular |-> TRUE]

\* JSON.stringify, of the bodies below
JSONStringify(v) ==
    CASE v = Undefined -> Resolved(Undefined)
      [] v = Circular ->
            Rejected(Err("TypeError", <<"Converting circular structure to JSON">>))
      [] v = JObj([a |-> JNum(1)]) -> Resolved(JStr(<<"{\"a\":1}">>))

DEFAULT_HEADERS ==
    [h \in {"Accept", "Content-Type"} |-> <<"application/json">>]

\* method, url, body and headers of the requests
Endpoints ==
    { [method |-> "GET", url |-> "https://x/y", body |-> Undefined,
       headers |-> Undefined],
      [method |-> "POST", url |-> "https://x/login",
       body |-> JObj([a |-> JNum(1)]), headers |-> Undefined],
      [method |-> "POST", url |-> "https://x/login",
       body |-> JStr(<<"raw">>),
       headers |-> JObj([h \in {"Content-Type"} |-> <<"text/plain">>])],
      [method |-> "POST", url |-> "https://x/login", body |-> Circular,
       headers |-> Undefined] }
TimeoutValues == {Undefined} \cup {JNum(n) : n \in 0..MaxTimeout}
RequestDescriptors ==
    { [method |-> e.method, url |-> e.url, body |-> e.body,
       headers |-> e.headers, timeoutMs |-> t] :
      e \in Endpoints, t \in TimeoutValues }
NoRequest == [api |-> "none"]
NoInit == [method |-> "none"]

----------------------------------------------------------------------------
(* DefaultNetworkTransport: the pure parts *)

\* createTimeoutSignal as if a controller and a timer were always made
createTimeoutSignal_always(timeoutMs, t) ==
    [signal |-> "clear",
     timeout |-> [state |-> "armed",
                  deadline |-> IF typeof(timeoutMs) = "number"
                               THEN t + timeoutMs.n ELSE t]]

\* createTimeoutSignal(timeoutMs), called at time t
createTimeoutSignal(timeoutMs, t) ==
    IF typeof(timeoutMs) = "number"
    THEN [signal |-> "clear",
          timeout |-> [state |-> "armed", deadline |-> t + timeoutMs.n]]
    ELSE [signal |-> "undefined",
          timeout |-> [state |-> "none", deadline |-> 0]]

\* cancelTimeout as if the timer were never cleared
cancelTimeout_noop(tm) == tm

\* cancelTimeout(): clearTimeout of the timer, or the no-op
cancelTimeout(tm) ==
    IF tm.state = "armed" THEN [tm EXCEPT !.state = "cleared"] ELSE tm

\* the error of the last branch as if it did not name the status
unexpectedStatus_bare(resp) == Err("Error", <<"Unexpected status code">>)

\* new Error(`Unexpected status code (${status} ${statusText})`)
unexpectedStatus(resp) ==
    Err("Error",
        <<"Unexpected status code (">> \o NumToStr(resp.status)
        \o <<" ", resp.statusText, ")">>)

\* classify as if a success with any content-type were read as JSON
classify_anyType(req, resp) ==
    LET contentType == HeadersGet(resp.headers, "content-type") IN
    IF resp.ok
    THEN IF contentType = JNull
         THEN [do |-> "return", value |-> JNull]
         ELSE [do |-> "json", then |-> "return"]
    ELSE IF /\ truthy(contentType)
            /\ startsWith(contentType.s, <<"application/json">>)
         THEN [do |-> "json", then |-> "throw"]
         ELSE [do |-> "throw", error |-> unexpectedStatus(resp)]

\* classify as if a missing content-type were read as JSON
classify_nullIsJson(req, resp) ==
    LET contentType == HeadersGet(resp.headers, "content-type") IN
    IF resp.ok
    THEN IF contentType = JNull \/ startsWith(contentType.s, <<"application/json">>)
         THEN [do |-> "json", then |-> "return"]
         ELSE [do |-> "throw",
               error |-> Err("Error", <<"Expected an empty or a JSON response">>)]
    ELSE IF /\ truthy(contentType)
            /\ startsWith(contentType.s, <<"application/json">>)
         THEN [do |-> "json", then |-> "throw"]
         ELSE [do |-> "throw", error |-> unexpectedStatus(resp)]

\* fetchAndParse, from the response to the first await or exit of the try
\* block: what the call does next
classify(req, resp) ==
    LET contentType == HeadersGet(resp.headers, "content-type") IN
    IF resp.ok
    THEN IF contentType = JNull
         THEN [do |-> "return", value |-> JNull]
         ELSE IF startsWith(contentType.s, <<"application/json">>)
         THEN [do |-> "json", then |-> "return"]
         ELSE [do |-> "throw",
               error |-> Err("Error", <<"Expected an empty or a JSON response">>)]
    ELSE IF /\ truthy(contentType)
            /\ startsWith(contentType.s, <<"application/json">>)
         THEN [do |-> "json", then |-> "throw"]
         ELSE [do |-> "throw", error |-> unexpectedStatus(resp)]

\* the catch clause as if it wrapped every error
catch_wrapsAll(req, err) ==
    Err("Error",
        <<"Request failed (", req.method, " ", req.url, "): ">>
        \o (IF err.class = "MongoDBRealmError" THEN <<"API error">>
            ELSE err.message))

\* the catch clause as if its message named the method only
catch_noUrl(req, err) ==
    IF err.class = "MongoDBRealmError"
    THEN err
    ELSE Err("Error", <<"Request failed (", req.method, "): ">> \o err.message)

\* the catch clause of fetchAndParse: the error the caller gets
catch(req, err) ==
    IF err.class = "MongoDBRealmError"
    THEN err
    ELSE Err("Error",
             <<"Request failed (", req.method, " ", req.url, "): ">>
             \o err.message)

\* afterJson as if a body that cannot be parsed were an empty response
afterJson_swallows(req, resp, body) ==
    IF body.kind = "rejected"
    THEN Resolved(JNull)
    ELSE IF classify(req, resp).then = "return"
    THEN Resolved(body.value)
    ELSE Rejected(catch(req,
             MongoDBRealmError(req.method, req.url, resp.status,
                               resp.statusText, body.value)))

\* fetchAndParse, after response.json() settled with `body`
afterJson(req, resp, body) ==
    IF body.kind = "rejected"
    THEN Rejected(catch(req, body.error))
    ELSE IF classify(req, resp).then = "return"
    THEN Resolved(body.value)
    ELSE Rejected(catch(req,
             MongoDBRealmError(req.method, req.url, resp.status,
                               resp.statusText, body.value)))

\* rawResponse as if a non-success status were made an error
rawResponse_classifies(resp, body) ==
    IF body.kind = "rejected"
    THEN body
    ELSE IF ~resp.ok
    THEN Rejected(unexpectedStatus(resp))
    ELSE Resolved([statusCode |-> resp.status,
                   headers |-> [k \in DOMAIN resp.headers |-> resp.headers[k]],
                   body |-> body.value])

\* fetchWithCallbacks: the first then-callback, after response.text() settled
rawResponse(resp, body) ==
    IF body.kind = "rejected"
    THEN body
    ELSE Resolved([statusCode |-> resp.status,
                   headers |-> [k \in DOMAIN resp.headers |-> resp.headers[k]],
                   body |-> body.value])

----------------------------------------------------------------------------
(* DefaultNetworkTransport: the steps of a call *)

Calls == {1}

\* the .then(r => handler.onSuccess(r)).catch(e => handler.onError(e)) of
\* fetchWithCallbacks, for a chain that settled with `p`; `throws` is
\* whether handler.onSuccess throws
callbacks(h, p, throws) ==
    IF p.kind = "resolved"
    THEN [onSuccess |-> h.onSuccess + 1,
          onError |-> IF throws THEN h.onError + 1 ELSE h.onError,
          thrown |-> IF throws THEN h.thrown + 1 ELSE h.thrown]
    ELSE [onSuccess |-> h.onSuccess, onError |-> h.onError + 1,
          thrown |-> h.thrown]

\* the promise of fetch(request) rejects with `err`: the catch clause of
\* fetchAndParse, or the .catch of fetchWithCallbacks
fetchRejected(c, req, err) ==
    /\ pc' = [pc EXCEPT ![c] = "done"]
    /\ IF req.api = "fetchAndParse"
       THEN /\ settled' = [settled EXCEPT ![c] = Rejected(catch(req, err))]
            /\ UNCHANGED handler
       ELSE /\ settled' = [settled EXCEPT ![c] = Rejected(err)]
            /\ handler' = [handler EXCEPT ![c] =
                               callbacks(@, Rejected(err), FALSE)]

\* the second argument of the HTTP call
initOf(req, body, sig) ==
    [method |-> req.method,
     url |-> req.url,
     headers |-> IF req.headers = Undefined THEN DEFAULT_HEADERS
                 ELSE req.headers.f,
     body |-> body,
     signal |-> sig]

\* fetch(request) up to its await: the timer is armed and the HTTP
\* capability is called, once; when the body cannot be serialized the
\* finally block cancels the timer and the promise rejects
fetch(c, req) ==
    LET ts == createTimeoutSignal(req.timeoutMs, now)
        body == IF typeof(req.body) = "string" THEN Resolved(req.body)
                ELSE JSONStringify(req.body)
    IN
    /\ request' = [request EXCEPT ![c] = req @@ [at |-> now]]
    /\ signal' = [signal EXCEPT ![c] = ts.signal]
    /\ IF body.kind = "resolved"
       THEN /\ pc' = [pc EXCEPT ![c] = "fetching"]
            /\ timeout' = [timeout EXCEPT ![c] = ts.timeout]
            /\ httpInit' = [httpInit EXCEPT ![c] =
                                initOf(req, body.value, ts.signal)]
            /\ httpCalls' = [httpCalls EXCEPT ![c] = @ + 1]
            /\ UNCHANGED <<settled, handler>>
       ELSE /\ timeout' = [timeout EXCEPT ![c] = cancelTimeout(ts.timeout)]
            /\ fetchRejected(c, req, body.error)
            /\ UNCHANGED <<httpInit, httpCalls>>
    /\ UNCHANGED <<now, response, bodyReads, authVars, codecVars>>

\* a caller calls fetchAndParse(request)
fetchAndParse(c, desc) ==
    /\ pc[c] = "idle"
    /\ fetch(c, desc @@ [api |-> "fetchAndParse"])

\* a caller calls fetchWithCallbacks(request, handler)
fetchWithCallbacks(c, desc) ==
    /\ pc[c] = "idle"
    /\ fetch(c, desc @@ [api |-> "fetchWithCallbacks"])

\* the HTTP capability resolves with a response (it does not once the signal
\* is aborted): the finally block of fetch cancels the timer, and the entry
\* point goes on to its next await or exit
HttpResolves(c, resp) ==
    LET req == request[c]
        step == classify(req, resp)
    IN
    /\ pc[c] = "fetching"
    /\ signal[c] # "aborted"
    /\ timeout' = [timeout EXCEPT ![c] = cancelTimeout(@)]
    /\ response' = [response EXCEPT ![c] = resp]
    /\ IF req.api = "fetchAndParse" /\ step.do # "json"
       THEN /\ pc' = [pc EXCEPT ![c] = "done"]
            /\ settled' = [settled EXCEPT ![c] =
                    IF step.do = "return" THEN Resolved(step.value)
                    ELSE Rejected(catch(req, step.error))]
            /\ UNCHANGED bodyReads
       ELSE /\ pc' = [pc EXCEPT ![c] = "reading"]
            /\ bodyReads' = [bodyReads EXCEPT ![c] = @ + 1]
            /\ UNCHANGED settled
    /\ UNCHANGED <<now, request, signal, httpInit, handler, httpCalls,
                   authVars, codecVars>>

\* HttpRejects as if a rejected HTTP call were issued again
HttpRejects_retries(c) ==
    /\ pc[c] = "fetching"
    /\ httpCalls[c] < 3
    /\ httpCalls' = [httpCalls EXCEPT ![c] = @ + 1]
    /\ UNCHANGED <<now, pc, request, timeout, signal, httpInit, response,
                   settled, handler, bodyReads, authVars, codecVars>>

\* the HTTP capability rejects: with an AbortError once the signal is
\* aborted, with a network error at any time
HttpRejects(c) ==
    LET req == request[c]
        err == IF signal[c] = "aborted" THEN AbortError ELSE NetworkError
    IN
    /\ pc[c] = "fetching"
    /\ timeout' = [timeout EXCEPT ![c] = cancelTimeout(@)]
    /\ fetchRejected(c, req, err)
    /\ UNCHANGED <<now, request, signal, httpInit, response, httpCalls,
                   bodyReads, authVars, codecVars>>

\* TimerFires as if all requests shared one abort controller
TimerFires_shared(c) ==
    /\ timeout[c].state = "armed"
    /\ now >= timeout[c].deadline
    /\ timeout' = [timeout EXCEPT ![c].state = "fired"]
    /\ signal' = [d \in DOMAIN signal |->
                      IF signal[d] = "undefined" THEN "undefined" ELSE "aborted"]
    /\ UNCHANGED <<now, pc, request, httpInit, response, settled, handler,
                   httpCalls, bodyReads, authVars, codecVars>>

\* the timer of createTimeoutSignal fires: controller.abort()
TimerFires(c) ==
    /\ timeout[c].state = "armed"
    /\ now >= timeout[c].deadline
    /\ timeout' = [timeout EXCEPT ![c].state = "fired"]
    /\ signal' = [signal EXCEPT ![c] = "aborted"]
    /\ UNCHANGED <<now, pc, request, httpInit, response, settled, handler,
                   httpCalls, bodyReads, authVars, codecVars>>

\* response.json() or response.text() settles
BodySettles(c, throws) ==
    LET req == request[c]
        resp == response[c]
    IN
    /\ pc[c] = "reading"
    /\ pc' = [pc EXCEPT ![c] = "done"]
    /\ IF req.api = "fetchAndParse"
       THEN /\ settled' = [settled EXCEPT ![c] =
                               afterJson(req, resp, json(resp, signal[c]))]
            /\ throws = FALSE
            /\ UNCHANGED handler
       ELSE LET p == rawResponse(resp, text(resp, signal[c])) IN
            /\ settled' = [settled EXCEPT ![c] = p]
            /\ handler' = [handler EXCEPT ![c] = callbacks(@, p, throws)]
    /\ UNCHANGED <<now, request, timeout, signal, httpInit, response,
                   httpCalls, bodyReads, authVars, codecVars>>

\* a millisecond passes; the callback of a timer runs when the timer is due,
\* so the clock does not pass the deadline of an armed timer
Tick ==
    /\ now < MaxTime
    /\ \A c \in DOMAIN timeout :
           timeout[c].state = "armed" => now < timeout[c].deadline
    /\ now' = now + 1
    /\ UNCHANGED <<pc, request, timeout, signal, httpInit, response, settled,
                   handler, httpCalls, bodyReads, authVars, codecVars>>

----------------------------------------------------------------------------
(* utils/string.ts: strings are sequences of characters here *)

\* String(v) of a string, a number or a boolean
String(v) ==
    CASE v.t = "string" -> v.s
      [] v.t = "number" -> NumToStr(v.n)
      [] v.t = "boolean" -> IF v.b THEN <<"t", "r", "u", "e">>
                            ELSE <<"f", "a", "l", "s", "e">>

\* the characters encodeURIComponent escapes, with their escapes
Escapes ==
    [ch \in {"&", "=", "%", " ", "?"} |->
        CASE ch = "&" -> <<"%", "2", "6">>
          [] ch = "=" -> <<"%", "3", "D">>
          [] ch = "%" -> <<"%", "2", "5">>
          [] ch = " " -> <<"%", "2", "0">>
          [] ch = "?" -> <<"%", "3", "F">>]

\* encodeURIComponent, of a sequence of characters
RECURSIVE encodeChars(_)
encodeChars(s) ==
    IF s = <<>> THEN <<>>
    ELSE (IF Head(s) \in DOMAIN Escapes THEN Escapes[Head(s)] ELSE <<Head(s)>>)
         \o encodeChars(Tail(s))

encodeURIComponent(v) == encodeChars(String(v))

\* Array.prototype.join
RECURSIVE join(_, _)
join(parts, sep) ==
    IF parts = <<>> THEN <<>>
    ELSE IF Len(parts) = 1 THEN parts[1]
    ELSE parts[1] \o sep \o join(Tail(parts), sep)

\* Array.prototype.filter, keeping the entries whose value is not undefined
RECURSIVE filterDefined(_)
filterDefined(entries) ==
    IF entries = <<>> THEN <<>>
    ELSE (IF typeof(Head(entries).v) # "undefined" THEN <<Head(entries)>>
          ELSE <<>>)
         \o filterDefined(Tail(entries))

\* encodeQueryString(params); params are the entries of the object, in order
encodeQueryString(params) ==
    LET filteredParams == filterDefined(params) IN
    join([i \in 1..Len(filteredParams) |->
              filteredParams[i].k \o <<"=">>
              \o encodeURIComponent(filteredParams[i].v)],
         <<"&">>)

\* encodeUrl(url, query)
encodeUrl(url, query) ==
    LET queryString == encodeQueryString(query) IN
    IF Len(queryString) > 0 THEN url \o <<"?">> \o queryString ELSE url

\* String.prototype.split, by a separator of one character
RECURSIVE split(_, _)
split(s, sep) ==
    IF \A i \in 1..Len(s) : s[i] # sep
    THEN <<s>>
    ELSE LET i == CHOOSE j \in 1..Len(s) :
                      s[j] = sep /\ \A h \in 1..(j - 1) : s[h] # sep
         IN <<SubSeq(s, 1, i - 1)>> \o split(SubSeq(s, i + 1, Len(s)), sep)

URIError == Err("URIError", <<"URI malformed">>)

\* decodeURIComponent, of a sequence of characters: the escapes above are
\* the escapes of this alphabet, and a % that starts none of them is
\* malformed
RECURSIVE decodeChars(_)
decodeChars(s) ==
    IF s = <<>> THEN Resolved(<<>>)
    ELSE IF Head(s) = "%"
    THEN IF Len(s) >= 3 /\ \E ch \in DOMAIN Escapes : Escapes[ch] = SubSeq(s, 1, 3)
         THEN LET ch == CHOOSE x \in DOMAIN Escapes : Escapes[x] = SubSeq(s, 1, 3)
                  rest == decodeChars(SubSeq(s, 4, Len(s)))
              IN IF rest.kind = "rejected" THEN rest
                 ELSE Resolved(<<ch>> \o rest.value)
         ELSE Rejected(URIError)
    ELSE LET rest == decodeChars(Tail(s))
         IN IF rest.kind = "rejected" THEN rest
            ELSE Resolved(<<Head(s)>> \o rest.value)

\* decodeURIComponent(v): the argument is converted to a string first, and
\* String(undefined) is "undefined"
decodeURIComponent(v) ==
    IF v = Undefined
    THEN Resolved(<<"u", "n", "d", "e", "f", "i", "n", "e", "d">>)
    ELSE decodeChars(v.s)

\* Object.fromEntries: of two entries with the same key the later one stays
fromEntries(entries) ==
    [key \in {entries[i].k : i \in 1..Len(entries)} |->
        LET last == CHOOSE i \in 1..Len(entries) :
                        /\ entries[i].k = key
                        /\ \A j \in (i + 1)..Len(entries) : entries[j].k # key
        IN entries[last].v]

\* decodeQueryString(str): the object, or the error decodeURIComponent threw
decodeQueryString(str) ==
    LET kvps == split(str, "&")
        pairs == [i \in 1..Len(kvps) |-> split(kvps[i], "=")]
        values == [i \in 1..Len(pairs) |->
                      decodeURIComponent(IF Len(pairs[i]) >= 2
                                         THEN JStr(pairs[i][2]) ELSE Undefined)]
    IN
    IF \E i \in 1..Len(values) : values[i].kind = "rejected"
    THEN Rejected(URIError)
    ELSE Resolved(fromEntries([i \in 1..Len(pairs) |->
                                  [k |-> pairs[i][1], v |-> values[i].value]]))

\* the keys and the values of the objects that are encoded
QueryKeys == { <<"a">>, <<"b">>, <<"q", "&", "r">> }
QueryValues ==
    { JStr(<<"x">>), JStr(<<>>), JStr(<<"a", "&", "b", "=", "1">>),
      JStr(<<"5", "0", "%", " ", "?">>), JNum(0), JNum(42),
      JBool(TRUE), JBool(FALSE), Undefined }

\* the objects that are encoded, as their entries in order: from no entry to
\* MaxEntries entries, with keys that differ
QueryObjects ==
    UNION { { m \in [1..n -> [k : QueryKeys, v : QueryValues]] :
                \A i, j \in 1..n : i # j => m[i].k # m[j].k } :
            n \in 0..MaxEntries }

\* a caller encodes an object
Encodes(m) ==
    /\ cpc = "idle"
    /\ cpc' = "encoded"
    /\ mapping' = m
    /\ encoded' = encodeQueryString(m)
    /\ UNCHANGED <<decoded, transportVars, authVars>>

\* a caller decodes the query string
Decodes ==
    /\ cpc = "encoded"
    /\ cpc' = "decoded"
    /\ decoded' = decodeQueryString(encoded)
    /\ UNCHANGED <<mapping, encoded, transportVars, authVars>>

----------------------------------------------------------------------------
(* The collaborators of the Authenticator: Credentials, Fetcher, OAuth2Helper *)

ProviderTypes ==
    { <<"oauth2", "-google">>, <<"oauth2">>, <<"local-userpass">>,
      <<"custom-", "oauth2">> }
CredentialPayloads ==
    { JObj([redirectUrl |-> JStr(<<"https://app/redirect">>)]),
      JObj([redirectUrl |-> JNum(1)]),
      JObj([username |-> JStr(<<"a">>)]) }
AllCredentials ==
    { [providerType |-> pt, providerName |-> pt, payload |-> pl] :
      pt \in ProviderTypes, pl \in CredentialPayloads }
NoCredentials == [providerType |-> <<>>]

Users == {JObj([id |-> JStr(<<"u0">>)])}

\* what fetcher.getAppUrl() resolves with
AppUrls == {<<"https://a.example/app/1">>, <<"https://b.example/app/1">>}
NoAppUrl == <<>>

\* appUrl.authProvider(providerName).login().url
loginUrlOf(url, providerName) ==
    url \o <<"/auth/providers/">> \o providerName \o <<"/login">>

\* the values a field of a login response may have, or none
Absent == [t |-> "absent"]
FieldValues == {JStr(<<"x1">>), JStr(<<>>), JNum(7), JNull}
LoginKeys == {"user_id", "access_token", "refresh_token"}

\* what fetcher.fetchJSON resolves with: an object with any of the three
\* fields, null (an empty response) or a number
LoginResponses ==
    { JObj([k \in {k2 \in LoginKeys : g[k2] # Absent} |-> g[k]]) :
      g \in [LoginKeys -> FieldValues \cup {Absent}] }
    \cup {JNull, JNum(0)}
NoLoginResponse == Undefined
NoLoginRequest == [method |-> "none"]

\* the errors fetcher.fetchJSON and fetcher.getAppUrl reject with
FetchErrors ==
    { MongoDBRealmError("POST", "https://x/login", 401, "Unauthorized",
                        JObj([error |-> JStr(<<"invalid session">>)])),
      Err("Error", <<"Request failed (POST https://x/login): Failed to fetch">>) }

\* what oauth2.initiate resolves with, and OAuth2Helper.decodeAuthInfo
OAuth2Results ==
    { [userAuth |-> [user_id |-> JStr(<<"u2">>), access_token |-> JStr(<<"t2">>),
                     refresh_token |-> JStr(<<"r2">>)]] }
OAuth2Error == Err("Error", <<"Authentication was not completed">>)

decodeAuthInfo(userAuth) ==
    [userId |-> userAuth.user_id, accessToken |-> userAuth.access_token,
     refreshToken |-> userAuth.refresh_token]

----------------------------------------------------------------------------
(* Authenticator.authenticate *)

\* the condition as if the provider type were compared for equality
isOAuth2_exact(cred) ==
    /\ cred.providerType = <<"oauth2">>
    /\ typeof(Get(cred.payload, "redirectUrl")) = "string"

\* the condition of the if statement: the OAuth2 flow or the direct login
isOAuth2(cred) ==
    /\ startsWith(cred.providerType, <<"oauth2">>)
    /\ typeof(Get(cred.payload, "redirectUrl")) = "string"

\* loginRequestOf as if link=false were sent when no user is linked
loginRequestOf_linkFalse(url, cred, link) ==
    [method |-> "POST",
     url |-> encodeUrl(loginUrlOf(url, cred.providerName),
                 << [k |-> <<"l", "i", "n", "k">>, v |-> JBool(truthy(link))] >>),
     body |-> cred.payload,
     tokenType |-> IF truthy(link) THEN "access" ELSE "none",
     user |-> link]

\* the request of the login POST
loginRequestOf(url, cred, link) ==
    [method |-> "POST",
     url |-> encodeUrl(loginUrlOf(url, cred.providerName),
                 << [k |-> <<"l", "i", "n", "k">>,
                     v |-> IF truthy(link) THEN JBool(TRUE) ELSE Undefined] >>),
     body |-> cred.payload,
     tokenType |-> IF truthy(link) THEN "access" ELSE "none",
     user |-> link]

\* validate as if the access token were not checked
validate_noTokenCheck(resp) ==
    IF resp.t \in {"null", "undefined"}
    THEN Rejected(Err("TypeError", <<"Cannot destructure property of null">>))
    ELSE LET userId == Get(resp, "user_id")
             accessToken == Get(resp, "access_token")
             refreshToken == IF Get(resp, "refresh_token") = Undefined
                             THEN JNull ELSE Get(resp, "refresh_token")
         IN
         IF typeof(userId) # "string"
         THEN Rejected(Err("Error", <<"Expected a user id in the response">>))
         ELSE Resolved([userId |-> userId, accessToken |-> accessToken,
                        refreshToken |-> refreshToken])

\* from the response of the login POST to the return or throw of authenticate
validate(resp) ==
    IF resp.t \in {"null", "undefined"}
    THEN Rejected(Err("TypeError", <<"Cannot destructure property of null">>))
    ELSE LET userId == Get(resp, "user_id")
             accessToken == Get(resp, "access_token")
             refreshToken == IF Get(resp, "refresh_token") = Undefined
                             THEN JNull ELSE Get(resp, "refresh_token")
         IN
         IF typeof(userId) # "string"
         THEN Rejected(Err("Error", <<"Expected a user id in the response">>))
         ELSE IF typeof(accessToken) # "string"
         THEN Rejected(Err("Error",
                           <<"Expected an access token in the response">>))
         ELSE Resolved([userId |-> userId, accessToken |-> accessToken,
                        refreshToken |-> refreshToken])

\* authenticate as if the app URL of an earlier invocation were kept and
\* used again without asking the supplier
authenticate_cached(cred, link) ==
    /\ apc = "idle"
    /\ invocations < MaxInvocations
    /\ invocations' = invocations + 1
    /\ credentials' = cred
    /\ linkWithUser' = link
    /\ loginResponse' = NoLoginResponse
    /\ authResult' = Pending
    /\ UNCHANGED appUrl
    /\ IF isOAuth2(cred)
       THEN /\ apc' = "oauth2"
            /\ oauth2Calls' = 1
            /\ appUrlCalls' = 0
            /\ posts' = 0
            /\ loginRequest' = NoLoginRequest
       ELSE IF appUrl # NoAppUrl
       THEN /\ apc' = "login"
            /\ oauth2Calls' = 0
            /\ appUrlCalls' = 0
            /\ posts' = 1
            /\ loginRequest' = loginRequestOf(appUrl, cred, link)
       ELSE /\ apc' = "appUrl"
            /\ appUrlCalls' = 1
            /\ oauth2Calls' = 0
            /\ posts' = 0
            /\ loginRequest' = NoLoginRequest
    /\ UNCHANGED <<transportVars, codecVars>>

\* authenticate(credentials, linkWithUser), up to its first await
authenticate(cred, link) ==
    /\ apc = "idle"
    /\ invocations < MaxInvocations
    /\ invocations' = invocations + 1
    /\ credentials' = cred
    /\ linkWithUser' = link
    /\ appUrl' = NoAppUrl
    /\ loginRequest' = NoLoginRequest
    /\ loginResponse' = NoLoginResponse
    /\ authResult' = Pending
    /\ posts' = 0
    /\ IF isOAuth2(cred)
       THEN /\ apc' = "oauth2"
            /\ oauth2Calls' = 1
            /\ appUrlCalls' = 0
       ELSE /\ apc' = "appUrl"
            /\ appUrlCalls' = 1
            /\ oauth2Calls' = 0
    /\ UNCHANGED <<transportVars, codecVars>>

\* oauth2.initiate(credentials) settles
OAuth2Settles(p) ==
    /\ apc = "oauth2"
    /\ apc' = "done"
    /\ authResult' = IF p.kind = "resolved"
                     THEN Resolved(decodeAuthInfo(p.value.userAuth))
                     ELSE p
    /\ UNCHANGED <<credentials, linkWithUser, appUrl, loginRequest,
                   loginResponse, oauth2Calls, appUrlCalls, posts, invocations,
                   transportVars, codecVars>>

\* fetcher.getAppUrl() settles: the login POST is sent, or authenticate rejects
AppUrlSettles(p) ==
    /\ apc = "appUrl"
    /\ IF p.kind = "resolved"
       THEN /\ apc' = "login"
            /\ appUrl' = p.value
            /\ loginRequest' = loginRequestOf(p.value, credentials, linkWithUser)
            /\ posts' = posts + 1
            /\ UNCHANGED authResult
       ELSE /\ apc' = "done"
            /\ authResult' = p
            /\ UNCHANGED <<appUrl, loginRequest, posts>>
    /\ UNCHANGED <<credentials, linkWithUser, loginResponse, oauth2Calls,
                   appUrlCalls, invocations, transportVars, codecVars>>

\* fetcher.fetchJSON(...) settles: the response is validated
LoginSettles(p) ==
    /\ apc = "login"
    /\ apc' = "done"
    /\ IF p.kind = "resolved"
       THEN /\ loginResponse' = p.value
            /\ authResult' = validate(p.value)
       ELSE /\ authResult' = p
            /\ UNCHANGED loginResponse
    /\ UNCHANGED <<credentials, linkWithUser, appUrl, loginRequest,
                   oauth2Calls, appUrlCalls, posts, invocations,
                   transportVars, codecVars>>

\* the caller has the result; authenticate may be called again
AuthReturns ==
    /\ apc = "done"
    /\ invocations < MaxInvocations
    /\ apc' = "idle"
    /\ UNCHANGED <<credentials, linkWithUser, appUrl, loginRequest,
                   loginResponse, authResult, oauth2Calls, appUrlCalls, posts,
                   invocations, transportVars, codecVars>>

----------------------------------------------------------------------------
(* The specifications *)

\* the transport before the calls in `calls` are made
InitTransport(calls) ==
    /\ now = 0
    /\ pc = [c \in calls |-> "idle"]
    /\ request = [c \in calls |-> NoRequest]
    /\ timeout = [c \in calls |-> [state |-> "none", deadline |-> 0]]
    /\ signal = [c \in calls |-> "undefined"]
    /\ httpInit = [c \in calls |-> NoInit]
    /\ response = [c \in calls |-> NoResponse]
    /\ settled = [c \in calls |-> Pending]
    /\ handler = [c \in calls |-> [onSuccess |-> 0, onError |-> 0, thrown |-> 0]]
    /\ httpCalls = [c \in calls |-> 0]
    /\ bodyReads = [c \in calls |-> 0]

\* the authenticator and the codec before they are called
InitRest ==
    /\ apc = "idle"
    /\ credentials = NoCredentials
    /\ linkWithUser = Undefined
    /\ appUrl = NoAppUrl
    /\ loginRequest = NoLoginRequest
    /\ loginResponse = NoLoginResponse
    /\ authResult = Pending
    /\ oauth2Calls = 0
    /\ appUrlCalls = 0
    /\ posts = 0
    /\ invocations = 0
    /\ cpc = "idle"
    /\ mapping = <<>>
    /\ encoded = <<>>
    /\ decoded = Pending

Init == InitTransport(Calls) /\ InitRest

Next ==
    \/ \E c \in Calls, desc \in RequestDescriptors : fetchAndParse(c, desc)
    \/ \E c \in Calls, desc \in RequestDescriptors : fetchWithCallbacks(c, desc)
    \/ \E c \in Calls, resp \in Responses : HttpResolves(c, resp)
    \/ \E c \in Calls : HttpRejects(c)
    \/ \E c \in Calls : TimerFires(c)
    \/ \E c \in Calls, throws \in BOOLEAN : BodySettles(c, throws)
    \/ Tick

\* the transport: one call, from its entry point to its result
Spec == Init /\ [][Next]_vars

\* timers fire when they are due and time passes; the HTTP capability rejects
\* the call, and a body read that is pending, once the signal is aborted
Fairness ==
    /\ WF_vars(Tick)
    /\ \A c \in Calls :
           /\ WF_vars(TimerFires(c))
           /\ WF_vars(HttpRejects(c) /\ signal[c] = "aborted")
           /\ WF_vars(BodySettles(c, FALSE) /\ signal[c] = "aborted")

\* the transport, with timers that fire and an HTTP capability that honours
\* the signal
SpecFair == Init /\ [][Next]_vars /\ Fairness

NextAuth ==
    \/ \E cred \in AllCredentials, link \in Users \cup {Undefined} :
            authenticate(cred, link)
    \/ \E p \in {Resolved(r) : r \in OAuth2Results} \cup {Rejected(OAuth2Error)} :
            OAuth2Settles(p)
    \/ \E p \in {Resolved(u) : u \in AppUrls}
                 \cup {Rejected(e) : e \in FetchErrors} :
            AppUrlSettles(p)
    \/ \E p \in {Resolved(r) : r \in LoginResponses}
                 \cup {Rejected(e) : e \in FetchErrors} :
            LoginSettles(p)
    \/ AuthReturns

\* the authenticator: calls of authenticate, one after the other
SpecAuth == Init /\ [][NextAuth]_vars

\* two calls in flight at once, with fewer requests and responses
ConcurrentCalls == {1, 2}
ConcurrentRequests == {desc \in RequestDescriptors : desc.method = "GET"}
ConcurrentResponses ==
    {resp \in Responses :
        /\ resp.status \in {200, 503}
        /\ resp.headers \in {<<>>, [h \in {"content-type"} |-> <<"application/json">>]}
        /\ resp.body = "{\"a\":1}"}

InitConcurrent == InitTransport(ConcurrentCalls) /\ InitRest

NextConcurrent ==
    \/ \E c \in ConcurrentCalls, desc \in ConcurrentRequests :
            fetchAndParse(c, desc)
    \/ \E c \in ConcurrentCalls, desc \in ConcurrentRequests :
            fetchWithCallbacks(c, desc)
    \/ \E c \in ConcurrentCalls, resp \in ConcurrentResponses :
            HttpResolves(c, resp)
    \/ \E c \in ConcurrentCalls : HttpRejects(c)
    \/ \E c \in ConcurrentCalls : TimerFires(c)
    \/ \E c \in ConcurrentCalls, throws \in BOOLEAN : BodySettles(c, throws)
    \/ Tick

\* the transport: two calls, made and settled in any order
SpecConcurrent == InitConcurrent /\ [][NextConcurrent]_vars

NextCodec ==
    \/ \E m \in QueryObjects : Encodes(m)
    \/ Decodes

\* the query codec: an object is encoded and the result is decoded
SpecCodec == Init /\ [][NextCodec]_vars

----------------------------------------------------------------------------
(* The vocabulary of the claims *)

\* call c is a fetchAndParse call that has settled
Parsed(c) == pc[c] = "done" /\ request[c].api = "fetchAndParse"

\* call c got a response from the HTTP capability
Answered(c) == response[c] # NoResponse

\* call c was made, through either entry point
Dispatched(c) == request[c] # NoRequest

\* the response has a content-type header that starts with application/json
JsonType(resp) ==
    /\ "content-type" \in DOMAIN resp.headers
    /\ Len(resp.headers["content-type"]) >= 1
    /\ resp.headers["content-type"][1] = "application/json"

\* the body of the response arrives and is well-formed JSON
WellFormed(resp) ==
    resp.body \in {"{\"a\":1}", "{\"error\":\"invalid session\"}"}

\* the token sequence s contains the token sequence part
includes(s, part) ==
    \E i \in 1..(Len(s) - Len(part) + 1) :
        SubSeq(s, i, i + Len(part) - 1) = part

\* the error is a transport error of request req: a plain Error whose message
\* names the method and the URL
TransportError(e, req) ==
    /\ e.class = "Error"
    /\ includes(e.message, <<req.method>>)
    /\ includes(e.message, <<req.url>>)

----------------------------------------------------------------------------
(* The claims about fetchAndParse *)

\* C1, as stated: a fetchAndParse call whose response has a non-success
\* status and a JSON content-type rejects with an API error whose status,
\* statusText and payload are those of the response, whatever the body
\* contains.
C1_ApiErrorWhateverBody ==
    \A c \in Calls :
        (Parsed(c) /\ Answered(c) /\ ~response[c].ok /\ JsonType(response[c]))
        => /\ settled[c].kind = "rejected"
           /\ settled[c].error.class = "MongoDBRealmError"
           /\ settled[c].error.status = response[c].status
           /\ settled[c].error.statusText = response[c].statusText
           /\ WellFormed(response[c])
              => settled[c].error.payload = JSONParse(response[c].body).value

\* C1, amended: a fetchAndParse call whose response has a non-success status
\* and a JSON content-type always rejects; when the body is well-formed JSON
\* the error is an API error whose method, url, status, statusText and
\* payload are those of the request and the response, and when the body
\* cannot be read or parsed the error is a transport error.
C1_ApiErrorForJsonBody ==
    \A c \in Calls :
        (Parsed(c) /\ Answered(c) /\ ~response[c].ok /\ JsonType(response[c]))
        => /\ settled[c].kind = "rejected"
           /\ IF WellFormed(response[c])
              THEN /\ settled[c].error.class = "MongoDBRealmError"
                   /\ settled[c].error.method = request[c].method
                   /\ settled[c].error.url = request[c].url
                   /\ settled[c].error.status = response[c].status
                   /\ settled[c].error.statusText = response[c].statusText
                   /\ settled[c].error.payload = JSONParse(response[c].body).value
              ELSE TransportError(settled[c].error, request[c])

\* C1, its case: a 401 with a JSON content-type and a JSON body was rejected
\* with an API error carrying that body
C1_Witness ==
    \E c \in Calls :
        /\ Parsed(c) /\ Answered(c)
        /\ response[c].status = 401
        /\ JsonType(response[c])
        /\ response[c].body = "{\"error\":\"invalid session\"}"
        /\ settled[c].kind = "rejected"
        /\ settled[c].error.class = "MongoDBRealmError"
        /\ settled[c].error.payload = JObj([error |-> JStr(<<"invalid session">>)])

\* C2: a fetchAndParse call with a numeric timeoutMs = T: once more than T
\* milliseconds have passed since the call and the HTTP call has not settled,
\* abort has been fired on the signal of the call; a call whose signal was
\* aborted rejects with a transport error (never an API error, never a
\* value); and once the call has settled its timer is not pending.
C2_TimeoutRejects ==
    \A c \in Calls :
        (request[c].api = "fetchAndParse" /\ typeof(request[c].timeoutMs) = "number")
        => /\ (pc[c] = "fetching" /\ now > request[c].at + request[c].timeoutMs.n)
              => signal[c] = "aborted"
           /\ (pc[c] = "done" /\ signal[c] = "aborted")
              => /\ settled[c].kind = "rejected"
                 /\ TransportError(settled[c].error, request[c])
           /\ pc[c] = "done" => timeout[c].state # "armed"
           /\ signal[c] = "aborted" => settled[c].kind # "resolved"

\* C2, its case: the timer of a call with timeoutMs = 1 fired while the HTTP
\* call was pending, and the call was rejected with a transport error
C2_Witness ==
    \E c \in Calls :
        /\ Parsed(c)
        /\ request[c].timeoutMs = JNum(1)
        /\ ~Answered(c)
        /\ signal[c] = "aborted"
        /\ timeout[c].state = "fired"
        /\ settled[c].kind = "rejected"
        /\ settled[c].error.class = "Error"

\* C6: a fetchAndParse call whose response has a success status and no
\* content-type header resolves with null, and the body is never read.
C6_EmptySuccess ==
    \A c \in Calls :
        (Parsed(c) /\ Answered(c) /\ response[c].ok
         /\ "content-type" \notin DOMAIN response[c].headers)
        => /\ settled[c] = Resolved(JNull)
           /\ bodyReads[c] = 0

\* C6, its case: a 200 without a content-type header was resolved with null
C6_Witness ==
    \E c \in Calls :
        /\ Parsed(c) /\ Answered(c)
        /\ response[c].status = 200
        /\ response[c].headers = <<>>
        /\ settled[c].kind = "resolved"
        /\ settled[c].value.t = "null"

\* C7: a fetchAndParse call whose response has a success status and a JSON
\* content-type resolves with the parsed body when the body is well-formed
\* JSON, and rejects with a transport error naming the method and the URL
\* when the body cannot be parsed.
C7_JsonSuccess ==
    \A c \in Calls :
        (Parsed(c) /\ Answered(c) /\ response[c].ok /\ JsonType(response[c]))
        => IF WellFormed(response[c])
           THEN settled[c] = Resolved(JSONParse(response[c].body).value)
           ELSE /\ settled[c].kind = "rejected"
                /\ TransportError(settled[c].error, request[c])

\* C7, its case: a 200 with content-type application/json; charset=utf-8 and
\* the body {"a":1} was resolved with the object {a: 1}
C7_Witness ==
    \E c \in Calls :
        /\ Parsed(c) /\ Answered(c)
        /\ response[c].status = 200
        /\ response[c].headers =
               [h \in {"content-type"} |->
                   <<"application/json", "; charset=utf-8">>]
        /\ response[c].body = "{\"a\":1}"
        /\ settled[c] = Resolved(JObj([a |-> JNum(1)]))

\* C8: a fetchAndParse call whose response has a non-success status and a
\* content-type that is absent or does not start with application/json
\* rejects with a transport error whose message contains the status code and
\* the status text, the error carries no payload, and the body is never read.
C8_UnexpectedStatus ==
    \A c \in Calls :
        (Parsed(c) /\ Answered(c) /\ ~response[c].ok /\ ~JsonType(response[c]))
        => /\ settled[c].kind = "rejected"
           /\ TransportError(settled[c].error, request[c])
           /\ includes(settled[c].error.message,
                       NumToStr(response[c].status)
                       \o <<" ", response[c].statusText>>)
           /\ "payload" \notin DOMAIN settled[c].error
           /\ bodyReads[c] = 0

\* C8, its case: a 503 with content-type text/plain was rejected with an
\* error whose message contains 5, 0, 3
C8_Witness ==
    \E c \in Calls :
        /\ Parsed(c) /\ Answered(c)
        /\ response[c].status = 503
        /\ response[c].headers = [h \in {"content-type"} |-> <<"text/plain">>]
        /\ settled[c].kind = "rejected"
        /\ includes(settled[c].error.message, <<"5", "0", "3">>)

\* the error fetchAndParse caught in call c, when it is no API error: the
\* failure to serialize the body, the rejection of the HTTP call or of the
\* body read, or the error thrown for the response
Caught(c) ==
    IF httpCalls[c] = 0
    THEN JSONStringify(request[c].body).error
    ELSE IF ~Answered(c)
    THEN IF signal[c] = "aborted" THEN AbortError ELSE NetworkError
    ELSE IF JsonType(response[c])
    THEN json(response[c], signal[c]).error
    ELSE IF response[c].ok
    THEN Err("Error", <<"Expected an empty or a JSON response">>)
    ELSE Err("Error",
             <<"Unexpected status code (">> \o NumToStr(response[c].status)
             \o <<" ", response[c].statusText, ")">>)

\* C9: an API error reaches the caller of fetchAndParse as it was made (with
\* the method, url, status, statusText and payload it was made with, not
\* wrapped in another error); every other failure reaches the caller as a
\* plain Error whose message is "Request failed (<method> <url>): " followed
\* by the message of the error that was caught.
C9_CatchWrapsOnce ==
    \A c \in Calls :
        (Parsed(c) /\ settled[c].kind = "rejected")
        => IF Answered(c) /\ ~response[c].ok /\ JsonType(response[c])
              /\ WellFormed(response[c])
           THEN settled[c].error =
                    MongoDBRealmError(request[c].method, request[c].url,
                        response[c].status, response[c].statusText,
                        JSONParse(response[c].body).value)
           ELSE /\ settled[c].error.class = "Error"
                /\ DOMAIN settled[c].error = {"class", "message"}
                /\ settled[c].error.message =
                       <<"Request failed (", request[c].method, " ",
                         request[c].url, "): ">> \o Caught(c).message

\* C9, its case: the HTTP call of a POST was rejected with a network error,
\* and the caller got an Error naming POST, the URL and "Failed to fetch"
C9_Witness ==
    \E c \in Calls :
        /\ Parsed(c)
        /\ httpCalls[c] = 1
        /\ ~Answered(c)
        /\ signal[c] # "aborted"
        /\ request[c].method = "POST"
        /\ settled[c].kind = "rejected"
        /\ settled[c].error.message =
               <<"Request failed (", "POST", " ", "https://x/login", "): ",
                 "Failed to fetch">>

----------------------------------------------------------------------------
(* The claims about fetchWithCallbacks *)

\* C10, as stated: for a fetchWithCallbacks call that has run to its end,
\* exactly one of handler.onSuccess and handler.onError was invoked, once;
\* onError is not invoked after onSuccess, also when onSuccess throws.
C10_ExactlyOneCallback ==
    \A c \in Calls :
        (pc[c] = "done" /\ request[c].api = "fetchWithCallbacks")
        => handler[c].onSuccess + handler[c].onError = 1

\* call c is a fetchWithCallbacks call that has run to its end
Delivered(c) == pc[c] = "done" /\ request[c].api = "fetchWithCallbacks"

\* C11: fetchWithCallbacks does not classify. For a call whose HTTP call
\* returned a response and whose body text was read, whatever the status and
\* the content-type: onSuccess was invoked once, with the status of the
\* response as statusCode, the headers of the response as a mapping and the
\* text of the body, unparsed, as body; onError was invoked only when
\* onSuccess threw, never because of the status.
C11_RawResponse ==
    \A c \in Calls :
        (Delivered(c) /\ Answered(c) /\ response[c].body \in BodyTexts)
        => /\ handler[c].onSuccess = 1
           /\ handler[c].onError = handler[c].thrown
           /\ settled[c].kind = "resolved"
           /\ DOMAIN settled[c].value = {"statusCode", "headers", "body"}
           /\ settled[c].value.statusCode = response[c].status
           /\ settled[c].value.headers = response[c].headers
           /\ settled[c].value.body = response[c].body

\* C11, its case: a 503 with content-type text/plain and the body <html> was
\* given to onSuccess as it came, and onError was not invoked
C11_Witness ==
    \E c \in Calls :
        /\ Delivered(c) /\ Answered(c)
        /\ response[c].status = 503
        /\ response[c].headers = [h \in {"content-type"} |-> <<"text/plain">>]
        /\ handler[c].onSuccess = 1
        /\ handler[c].onError = 0
        /\ settled[c].kind = "resolved"
        /\ settled[c].value.statusCode = 503
        /\ settled[c].value.body = "<html>"

\* C18: a fetchAndParse call resolves only when it got a response with a
\* success status whose content-type is absent or starts with
\* application/json. A response with a success status and another
\* content-type (the empty one included) always rejects with the transport
\* error "Expected an empty or a JSON response", without reading the body; a
\* response with a non-success status never resolves; a response with a
\* success status never gives an API error.
C18_NoMisclassification ==
    \A c \in Calls :
        Parsed(c)
        => /\ settled[c].kind = "resolved"
              => /\ Answered(c)
                 /\ response[c].ok
                 /\ \/ "content-type" \notin DOMAIN response[c].headers
                    \/ JsonType(response[c])
           /\ (Answered(c) /\ response[c].ok
               /\ "content-type" \in DOMAIN response[c].headers
               /\ ~JsonType(response[c]))
              => /\ settled[c].kind = "rejected"
                 /\ TransportError(settled[c].error, request[c])
                 /\ includes(settled[c].error.message,
                             <<"Expected an empty or a JSON response">>)
                 /\ bodyReads[c] = 0
           /\ (Answered(c) /\ ~response[c].ok) => settled[c].kind = "rejected"
           /\ (Answered(c) /\ response[c].ok /\ settled[c].kind = "rejected")
              => settled[c].error.class # "MongoDBRealmError"

\* C18, its case: a 200 with content-type text/plain and a body that is
\* well-formed JSON was rejected with a transport error
C18_Witness ==
    \E c \in Calls :
        /\ Parsed(c) /\ Answered(c)
        /\ response[c].status = 200
        /\ response[c].headers = [h \in {"content-type"} |-> <<"text/plain">>]
        /\ response[c].body = "{\"a\":1}"
        /\ settled[c].kind = "rejected"
        /\ settled[c].error.class = "Error"
        /\ includes(settled[c].error.message,
                    <<"Expected an empty or a JSON response">>)

----------------------------------------------------------------------------
(* The claims about a fetchAndParse call as a whole *)

\* the body of the request is a string or can be serialized
Serializable(req) ==
    req.body.t = "string" \/ "circular" \notin DOMAIN req.body

\* C13, as stated: every fetchAndParse call that has settled performed the
\* HTTP call exactly once.
C13_ExactlyOneHttpCall ==
    \A c \in Calls : Parsed(c) => httpCalls[c] = 1

\* C13, amended: every fetchAndParse call settles at most once and performs
\* the HTTP call at most once: once when the body of the request is a string
\* or can be serialized, and not at all when it cannot. A failed call
\* surfaces one error, an API error or a transport error, and no value; once
\* the call has settled, neither its result changes nor is the HTTP call
\* issued again.
C13_SettlesOnce ==
    /\ [](\A c \in Calls :
            (Dispatched(c) /\ request[c].api = "fetchAndParse")
            => /\ httpCalls[c] = (IF Serializable(request[c]) THEN 1 ELSE 0)
               /\ handler[c].onSuccess + handler[c].onError = 0
               /\ IF pc[c] = "done"
                  THEN /\ settled[c].kind \in {"resolved", "rejected"}
                       /\ settled[c].kind = "rejected"
                          => (settled[c].error.class = "MongoDBRealmError")
                             # TransportError(settled[c].error, request[c])
                  ELSE settled[c] = Pending)
    /\ [][\A c \in Calls :
            settled[c] # Pending => /\ settled'[c] = settled[c]
                                    /\ httpCalls'[c] = httpCalls[c]]_vars

\* C13, its case: the HTTP call of a fetchAndParse call was rejected; the
\* call surfaced one transport error and the HTTP call was made once
C13_Witness ==
    \E c \in Calls :
        /\ Parsed(c)
        /\ ~Answered(c)
        /\ httpCalls[c] = 1
        /\ settled[c].kind = "rejected"
        /\ TransportError(settled[c].error, request[c])

----------------------------------------------------------------------------
(* The claims about the timer of a request *)

\* the HTTP call of call c has settled, or was never made
HttpSettled(c) == pc[c] \in {"reading", "done"}

\* C12: for every request, through either entry point. With a numeric
\* timeoutMs the timer is cancelled when the HTTP call settles, resolved or
\* rejected: no timer is armed once the HTTP call has settled, a call that
\* got a response never has an aborted signal, and no step taken after the
\* HTTP call settled (the body read, the result) changes the signal or the
\* timer. With a timeoutMs that is no number there is no controller and no
\* timer, and the HTTP call is issued without a signal.
C12_TimerTornDown ==
    /\ [](\A c \in Calls :
            Dispatched(c)
            => IF typeof(request[c].timeoutMs) = "number"
               THEN /\ HttpSettled(c) => timeout[c].state \in {"cleared", "fired"}
                    /\ Answered(c) => /\ signal[c] = "clear"
                                      /\ timeout[c].state = "cleared"
                    /\ httpCalls[c] = 1 => httpInit[c].signal # "undefined"
               ELSE /\ timeout[c].state = "none"
                    /\ signal[c] = "undefined"
                    /\ httpCalls[c] = 1 => httpInit[c].signal = "undefined")
    /\ [][\A c \in Calls :
            HttpSettled(c) => /\ signal'[c] = signal[c]
                              /\ timeout'[c] = timeout[c]]_vars

\* C12, its case: a call with timeoutMs = 1 got its response in time; its
\* body is still being read 2 ms after the call, the timer is cleared and
\* the signal is not aborted
C12_Witness ==
    \E c \in Calls :
        /\ pc[c] = "reading"
        /\ request[c].timeoutMs = JNum(1)
        /\ now >= request[c].at + 2
        /\ timeout[c].state = "cleared"
        /\ signal[c] = "clear"

\* C20, as stated: every fetchAndParse call with a numeric timeoutMs (whose
\* deadline the clock of the model reaches) eventually settles, when timers
\* fire and the HTTP capability rejects the call and a pending body read
\* once the signal is aborted: whether the exchange stalls before the
\* response arrives or while the body is read.
C20_EventuallySettles ==
    \A c \in Calls :
        (/\ request[c].api = "fetchAndParse"
         /\ typeof(request[c].timeoutMs) = "number"
         /\ request[c].at + request[c].timeoutMs.n <= MaxTime)
        ~> (pc[c] = "done")

----------------------------------------------------------------------------
(* The claims about requests in flight at once *)

\* all there is of call c
OwnState(c) ==
    <<pc[c], request[c], timeout[c], signal[c], httpInit[c], response[c],
      settled[c], handler[c], httpCalls[c], bodyReads[c]>>

\* how call c settles, from its own request, response and signal
OwnOutcome(c) ==
    LET req == request[c]
        resp == response[c]
        err == IF signal[c] = "aborted" THEN AbortError ELSE NetworkError
    IN
    IF req.api = "fetchAndParse"
    THEN IF ~Answered(c) THEN Rejected(catch(req, err))
         ELSE IF classify(req, resp).do = "return"
         THEN Resolved(classify(req, resp).value)
         ELSE IF classify(req, resp).do = "throw"
         THEN Rejected(catch(req, classify(req, resp).error))
         ELSE afterJson(req, resp, json(resp, signal[c]))
    ELSE IF ~Answered(c) THEN Rejected(err)
         ELSE rawResponse(resp, text(resp, signal[c]))

\* C17: for two requests in flight at once, in every order of their steps.
\* Each request has its own timer and signal: a signal is aborted only in a
\* step in which the timer of that request is due, and that step leaves the
\* other request as it was; a timer is cleared only in the step in which the
\* HTTP call of its own request settles; every step of one request leaves
\* the other request as it was. A request without a numeric timeoutMs never
\* has a signal, a request is aborted no earlier than its own timeoutMs
\* after it was made, and the result of a request is what its own request,
\* response and signal give.
C17_RequestsIndependent ==
    /\ [](\A c \in ConcurrentCalls :
            /\ Dispatched(c)
               => IF typeof(request[c].timeoutMs) = "number"
                  THEN signal[c] = "aborted"
                       => now >= request[c].at + request[c].timeoutMs.n
                  ELSE signal[c] = "undefined" /\ timeout[c].state = "none"
            /\ pc[c] = "done" => settled[c] = OwnOutcome(c))
    /\ [][\A c \in ConcurrentCalls :
            /\ (signal'[c] = "aborted" /\ signal[c] # "aborted")
               => /\ timeout[c].state = "armed"
                  /\ now >= timeout[c].deadline
            /\ (timeout[c].state = "armed" /\ timeout'[c].state = "cleared")
               => pc[c] = "fetching" /\ pc'[c] \in {"reading", "done"}
            /\ OwnState(c)' # OwnState(c)
               => \A d \in ConcurrentCalls \ {c} : OwnState(d)' = OwnState(d)
         ]_vars

\* C17, its case: two requests are in flight; the timer of the first has
\* fired and its signal is aborted, the timer of the second is armed and its
\* signal is not aborted
C17_Witness ==
    /\ DOMAIN pc = ConcurrentCalls
    /\ pc[1] = "fetching" /\ pc[2] = "fetching"
    /\ timeout[1].state = "fired" /\ signal[1] = "aborted"
    /\ timeout[2].state = "armed" /\ signal[2] = "clear"

----------------------------------------------------------------------------
(* The claims about the query codec *)

\* the object the round trip is to give for the entries m: the keys of m,
\* each with the string form of its value
Coerced(m) ==
    [key \in {m[i].k : i \in 1..Len(m)} |->
        String((CHOOSE e \in {m[i] : i \in 1..Len(m)} : e.k = key).v)]

\* no entry of m is undefined
AllDefined(m) == \A i \in 1..Len(m) : m[i].v # Undefined

\* C14, as stated: for every object without undefined entries, the empty
\* object included, decodeQueryString(encodeQueryString(m)) has the keys of
\* m, each with the string form of the value m has for it.
C14_RoundTrip ==
    (cpc = "decoded" /\ AllDefined(mapping))
    => decoded = Resolved(Coerced(mapping))

----------------------------------------------------------------------------
(* The claims about authenticate *)

\* the credentials select the OAuth2 flow, as the claims state it
OAuth2Credentials(cred) ==
    /\ Len(cred.providerType) >= 1
    /\ cred.providerType[1] = "oauth2"
    /\ "redirectUrl" \in DOMAIN cred.payload.f
    /\ cred.payload.f["redirectUrl"].t = "string"

\* the value is a string
IsString(v) == v.t = "string"

\* C3: on the direct path, a login response in which user_id or access_token
\* is missing or is no string makes authenticate reject, whatever else
\* (refresh_token included) the response carries.
C3_InvalidLoginRejects ==
    (apc = "done" /\ posts = 1 /\ loginResponse # NoLoginResponse)
    => ((~IsString(Get(loginResponse, "user_id"))
         \/ ~IsString(Get(loginResponse, "access_token")))
        => authResult.kind = "rejected")

\* C3, its case: a login response with a user_id and a refresh_token but no
\* access_token was rejected
C3_Witness ==
    /\ apc = "done" /\ posts = 1
    /\ loginResponse.t = "object"
    /\ DOMAIN loginResponse.f = {"user_id", "refresh_token"}
    /\ loginResponse.f["user_id"] = JStr(<<"x1">>)
    /\ loginResponse.f["refresh_token"] = JStr(<<"x1">>)
    /\ authResult.kind = "rejected"

\* C4, as stated: every AuthResponse that authenticate returns on the direct
\* path has a userId and an accessToken that are non-empty strings.
C4_NonEmptySession ==
    (apc = "done" /\ posts = 1 /\ authResult.kind = "resolved")
    => /\ IsString(authResult.value.userId)
       /\ Len(authResult.value.userId.s) > 0
       /\ IsString(authResult.value.accessToken)
       /\ Len(authResult.value.accessToken.s) > 0

\* C15: on the direct path the login POST has the method POST and the
\* payload of the credentials as its body. When linkWithUser was supplied,
\* its URL is the login URL followed by ?link=true, its tokenType is
\* "access" and its user is that user; when it was not, its URL is the login
\* URL as it is, with no "?" and no link parameter, its tokenType is "none"
\* and its user is undefined.
C15_LinkMarkersAgree ==
    posts = 1
    => LET loginUrl == loginUrlOf(appUrl, credentials.providerName) IN
       /\ loginRequest.method = "POST"
       /\ loginRequest.body = credentials.payload
       /\ IF linkWithUser # Undefined
          THEN /\ loginRequest.url =
                      loginUrl \o <<"?", "l", "i", "n", "k", "=", "t", "r", "u", "e">>
               /\ loginRequest.tokenType = "access"
               /\ loginRequest.user = linkWithUser
          ELSE /\ loginRequest.url = loginUrl
               /\ \A i \in 1..Len(loginRequest.url) :
                      loginRequest.url[i] \notin {"?", "="}
               /\ ~includes(loginRequest.url, <<"l", "i", "n", "k">>)
               /\ loginRequest.tokenType = "none"
               /\ loginRequest.user = Undefined

\* C15, its case: authenticate was called with a user to link with, and the
\* login POST went to a URL ending in ?link=true with the token type access
C15_Witness ==
    /\ apc = "login"
    /\ posts = 1
    /\ linkWithUser \in Users
    /\ loginRequest.tokenType = "access"
    /\ loginRequest.user = linkWithUser
    /\ includes(loginRequest.url, <<"?", "l", "i", "n", "k", "=", "t", "r", "u", "e">>)

\* C16: in every invocation of authenticate on the direct path, the first
\* one and the later ones: the app URL supplier is called once; the login
\* POST is not issued while the supplier is pending, is issued at most once,
\* in the step in which the supplier resolves, and goes to the URL the
\* supplier resolved with in this invocation; when the supplier rejects, no
\* login POST is issued and authenticate rejects with the error of the
\* supplier.
C16_AppUrlBeforeLogin ==
    /\ [](/\ posts \in {0, 1}
          /\ apc = "appUrl" => (posts = 0 /\ appUrlCalls = 1 /\ appUrl = NoAppUrl)
          /\ posts = 1 => /\ appUrlCalls = 1
                          /\ appUrl \in AppUrls
                          /\ startsWith(loginRequest.url, appUrl)
          /\ (apc = "done" /\ appUrlCalls = 1 /\ appUrl = NoAppUrl)
             => /\ posts = 0
                /\ loginRequest = NoLoginRequest
                /\ authResult.kind = "rejected"
                /\ authResult.error \in FetchErrors)
    /\ [][posts' > posts => /\ apc = "appUrl"
                            /\ appUrl = NoAppUrl
                            /\ appUrl' \in AppUrls]_vars

\* C16, its case: in the second invocation of authenticate the supplier was
\* asked again and resolved, and the login POST went to the URL it resolved
\* with
C16_Witness ==
    /\ invocations = 2
    /\ apc = "login"
    /\ appUrlCalls = 1
    /\ posts = 1
    /\ appUrl = <<"https://b.example/app/1">>
    /\ loginRequest.url[1] = "https://b.example/app/1"

\* C19, as stated: every AuthResponse that authenticate returns on the direct
\* path has a refreshToken that is a string or null, whatever the login
\* response carries as refresh_token, and null when the login response has
\* no refresh_token.
C19_RefreshTokenStringOrNull ==
    (apc = "done" /\ posts = 1 /\ authResult.kind = "resolved")
    => /\ authResult.value.refreshToken.t \in {"string", "null"}
       /\ "refresh_token" \notin DOMAIN loginResponse.f
          => authResult.value.refreshToken = JNull

\* C5: for credentials whose providerType starts with oauth2 and whose
\* payload has a string redirectUrl, authenticate calls oauth2.initiate and
\* returns decodeAuthInfo of its result, and neither calls getAppUrl nor
\* sends the login POST; for all other credentials it takes the direct path
\* and never calls oauth2.initiate. No invocation takes both paths.
C5_OneStrategy ==
    apc # "idle"
    => /\ IF OAuth2Credentials(credentials)
          THEN /\ oauth2Calls = 1 /\ appUrlCalls = 0 /\ posts = 0
               /\ apc \in {"oauth2", "done"}
               /\ loginRequest = NoLoginRequest
               /\ authResult.kind = "resolved"
                  => authResult.value \in
                         {decodeAuthInfo(r.userAuth) : r \in OAuth2Results}
          ELSE /\ oauth2Calls = 0 /\ appUrlCalls = 1
               /\ apc \in {"appUrl", "login", "done"}
       /\ ~(oauth2Calls > 0 /\ (appUrlCalls > 0 \/ posts > 0))

\* C5, its case: authenticate was called with credentials of the provider
\* type oauth2-google and a string redirectUrl, and returned the session of
\* the OAuth2 flow
C5_Witness ==
    /\ apc = "done"
    /\ credentials.providerType = <<"oauth2", "-google">>
    /\ credentials.payload = JObj([redirectUrl |-> JStr(<<"https://app/redirect">>)])
    /\ oauth2Calls = 1
    /\ authResult.kind = "resolved"
    /\ authResult.value.userId = JStr(<<"u2">>)

====
